---- MODULE Spec2Model ----
(***************************************************************************)
(* Model of logger.py: the training Logger (loss buffer, text log,         *)
(* periodic visualization and checkpoint files, scoped teardown), the      *)
(* static checkpoint loader, and the Visualizer's array functions.         *)
(***************************************************************************)
EXTENDS Integers, Sequences, FiniteSets, TLC

(* ------------------------------ bounds --------------------------------- *)
MaxCalls == 2
MaxIt == 3
MaxSaves == 1
MaxTrain == 1
MaxNum == 120
MaxBatch == 2
MaxTransfer == 3
MaxFrames == 2
MaxHeight == 3
MaxWidth == 3

(* ------------------------- input domains ------------------------------- *)
Iterations == 0..MaxIt
LogFreqs == {2}
CpkFreqs == {3}
FillCounters == {2}

\* loss lists a caller may pass: sequences of (name, value) tuples; the
\* empty list cannot be split into names and values
LossLists == { <<>>,
               << <<"a", 1>>, <<"b", 3>> >>,
               << <<"a", 3>>, <<"b", 5>> >> }

\* where the model invocation / image writing of a reporting call fails
Failures == {"none", "rec", "trans"}

\* a line left in the log file by an earlier run
OldLine == [prefix |-> <<0, 7>>, names |-> <<"a", "b">>, means |-> <<100000, 100000>>]

VARIABLES
    log_freq, cpk_freq, fill_counter, \* Logger configuration
    has_optimizer,                    \* self.optimizer is not None
    it,                               \* self.it
    loss_list,                        \* self.loss_list
    log_open, log_lines,              \* self.log_file: handle state, file content
    files,                            \* files of log_dir: name -> content
    model, optimizer,                 \* state of the model / optimizer objects
    scope,                            \* "active" | "exited"
    raised,                           \* error raised by the last operation
    observed,                         \* error the caller sees after teardown
    load_ret,                         \* value returned by the last load_cpk
    window,                           \* history: values logged since the last reporting call
    reports,                          \* history: iterations of the reporting calls, in order
    seen, distinct,                   \* history: iterations passed to log; no repeat so far
    ncalls, nsaves, ntrain,           \* history: number of log / save_cpk calls, training steps
    init_lines,                       \* history: log file content at construction
    writer,                           \* history: name -> who wrote the file last in this run
    overwrites,                       \* history: writes that replaced a file of this run
    saved_at,                         \* history: name -> state at the time of the save
    last,                             \* history: the last operation and its effects
    fmt,                              \* an iteration number being formatted into names
    vis                               \* a call of one of the array functions

vars == << log_freq, cpk_freq, fill_counter, has_optimizer, it, loss_list,
           log_open, log_lines, files, model, optimizer, scope, raised,
           observed, load_ret, window, reports, seen, distinct, ncalls,
           nsaves, ntrain, init_lines, writer, overwrites, saved_at, last,
           fmt, vis >>

\* what the Logger's operations do not touch
pure == << fmt, vis >>

config == << log_freq, cpk_freq, fill_counter, has_optimizer, init_lines >>

(* --------------------------- pure helpers ------------------------------ *)
Min(S) == CHOOSE x \in S : \A y \in S : x <= y

RECURSIVE SumAt(_, _)
\* sum of column p of a sequence of value tuples
SumAt(rows, p) ==
    IF rows = <<>> THEN 0 ELSE rows[1][p] + SumAt(Tail(rows), p)

RECURSIVE Str(_)
\* str(n) for n >= 0, as the sequence of its decimal digits
Str(n) == IF n < 10 THEN <<n>> ELSE Append(Str(n \div 10), n % 10)

\* mutant: the padded string is cut to the width
ZFillTruncates(s, width) ==
    IF Len(s) >= width THEN SubSeq(s, Len(s) - width + 1, Len(s))
    ELSE [i \in 1..width |-> IF i <= width - Len(s) THEN 0 ELSE s[i - (width - Len(s))]]

RECURSIVE ZFill(_, _)
\* s.zfill(width): left-pad with zeros up to width, never truncate
ZFill(s, width) == IF Len(s) >= width THEN s ELSE ZFill(<<0>> \o s, width)

\* "%s-rec.gif" % ..., "%s-trans.gif" % ..., '%s-checkpoint.pth.tar' % ...
FileName(n, width, suffix) == [prefix |-> ZFill(Str(n), width), suffix |-> suffix]

\* list(zip(*loss_list)): transposition, truncated to the shortest tuple
ZipStar(ll) ==
    IF ll = <<>> THEN <<>>
    ELSE [j \in 1..Min({Len(ll[i]) : i \in 1..Len(ll)}) |->
             [i \in 1..Len(ll) |-> ll[i][j]]]

\* "%.5f" % (sum / n): the mean in units of 10^-5, rounded to nearest
Mean5(sum, n) == (2 * sum * 100000 + n) \div (2 * n)

\* mutant: the mean is taken over the buffer without its latest record
LossMeanDropsLast(rows) ==
    LET n == IF Len(rows) > 1 THEN Len(rows) - 1 ELSE 1
    IN [p \in 1..Len(rows[1]) |-> Mean5(SumAt(SubSeq(rows, 1, n), p), n)]

\* np.array(self.loss_list).mean(axis=0)
LossMean(rows) ==
    [p \in 1..Len(rows[1]) |-> Mean5(SumAt(rows, p), Len(rows))]

\* torch.save of a dict: the entries, in insertion order, as (key, value) pairs
Pickle(keys, d) == [i \in 1..Len(keys) |-> <<keys[i], d[keys[i]]>>]

\* torch.load: the dict rebuilt from the stored entries
Unpickle(data) ==
    [k \in {data[i][1] : i \in 1..Len(data)} |->
        LET i == CHOOSE j \in 1..Len(data) : data[j][1] = k IN data[i][2]]

\* zip(loss_names, loss_mean): pairs by position up to the shorter length
ZipLen(a, b) == IF Len(a) <= Len(b) THEN Len(a) ELSE Len(b)

(* ------------------- the Logger's methods, on a state ------------------ *)
\* The mutable state the methods read and write, as one record; err is the
\* error raised so far ("none": still running); who and trace are history.
Self == [ it |-> it, loss_list |-> loss_list, log_open |-> log_open,
          log_lines |-> log_lines, files |-> files, writer |-> writer,
          overwrites |-> overwrites, saved_at |-> saved_at,
          err |-> "none", trace |-> <<>> ]

\* run step f only if nothing was raised before it
Then(s, f(_)) == IF s.err = "none" THEN f(s) ELSE s

Raise(s, e) == [s EXCEPT !.err = e]

\* a file of log_dir is created or replaced
WriteFile(s, name, content, who, what) ==
    [s EXCEPT !.files = (name :> content) @@ s.files,
              !.writer = (name :> who) @@ s.writer,
              !.overwrites = IF name \in DOMAIN s.writer
                             THEN s.overwrites \cup
                                  {[name |-> name, by |-> who, prev |-> s.writer[name]]}
                             ELSE s.overwrites,
              !.trace = Append(s.trace, what)]

\* mutant: the report replaces the content of the log file
log_scores_truncates(s, loss_names) ==
    LET loss_mean == LossMean(s.loss_list)
        k == ZipLen(loss_names, loss_mean)
        line == [prefix |-> ZFill(Str(s.it), fill_counter),
                 names |-> SubSeq(loss_names, 1, k),
                 means |-> SubSeq(loss_mean, 1, k)]
    IN [s EXCEPT !.log_lines = <<line>>,
                 !.loss_list = <<>>,
                 !.trace = s.trace \o <<"line", "clear", "flush">>]

\* mutant: the buffer is not reset after the report
log_scores_keeps_buffer(s, loss_names) ==
    LET loss_mean == LossMean(s.loss_list)
        k == ZipLen(loss_names, loss_mean)
        line == [prefix |-> ZFill(Str(s.it), fill_counter),
                 names |-> SubSeq(loss_names, 1, k),
                 means |-> SubSeq(loss_mean, 1, k)]
    IN [s EXCEPT !.log_lines = Append(s.log_lines, line),
                 !.trace = s.trace \o <<"line", "flush">>]

\* Logger.log_scores
log_scores(s, loss_names) ==
    IF s.loss_list = <<>> THEN Raise(s, "TypeError")   \* zip over a nan scalar
    ELSE IF ~s.log_open THEN Raise(s, "ValueError")    \* print to a closed file
    ELSE LET loss_mean == LossMean(s.loss_list)
             k == ZipLen(loss_names, loss_mean)
             line == [prefix |-> ZFill(Str(s.it), fill_counter),
                      names |-> SubSeq(loss_names, 1, k),
                      means |-> SubSeq(loss_mean, 1, k)]
         IN [s EXCEPT !.log_lines = Append(s.log_lines, line),
                      !.loss_list = <<>>,
                      !.trace = s.trace \o <<"line", "clear", "flush">>]

\* mutant: a failure of the model or of the image writer is swallowed
visualize_rec_swallows(s, fail) ==
    IF fail = "rec" THEN s
    ELSE WriteFile(s, FileName(s.it, fill_counter, "-rec.gif"),
                   [kind |-> "gif"], "log", "rec")

\* Logger.visualize_rec; fail = "rec": self.model(inp) or mimsave raises
visualize_rec(s, fail) ==
    IF fail = "rec" THEN Raise(s, "ModelError")
    ELSE WriteFile(s, FileName(s.it, fill_counter, "-rec.gif"),
                   [kind |-> "gif"], "log", "rec")

\* mutant: the transfer animation is written under the reconstruction's name
visualize_transfer_as_rec(s, fail) ==
    IF fail = "trans" THEN Raise(s, "ModelError")
    ELSE WriteFile(s, FileName(s.it, fill_counter, "-rec.gif"),
                   [kind |-> "gif"], "log", "trans")

\* Logger.visualize_transfer; fail = "trans": self.model(inp, True) or mimsave raises
visualize_transfer(s, fail) ==
    IF fail = "trans" THEN Raise(s, "ModelError")
    ELSE WriteFile(s, FileName(s.it, fill_counter, "-trans.gif"),
                   [kind |-> "gif"], "log", "trans")

\* Logger.save_cpk: self.optimizer.state_dict() on None raises AttributeError
save_cpk(s, who) ==
    IF ~has_optimizer THEN Raise(s, "AttributeError")
    ELSE LET name == FileName(s.it, fill_counter, "-checkpoint.pth.tar")
             d == [model |-> model, optimizer |-> optimizer, iter |-> s.it]
             w == WriteFile(s, name,
                            [kind |-> "cpk",
                             data |-> Pickle(<<"model", "optimizer", "iter">>, d)],
                            who, "cpk")
         IN [w EXCEPT !.saved_at =
                (name :> [model |-> model, optimizer |-> optimizer, it |-> s.it])
                @@ s.saved_at]

\* mutant: the report is triggered by the checkpoint interval
ReportDueByCpkFreq(it_in) == it_in % cpk_freq = 0

\* if it % self.log_freq == 0
ReportDue(it_in) == it_in % log_freq = 0

\* mutant: the checkpoint test is an elif of the report test
CheckpointDueElif(it_in) == it_in % log_freq # 0 /\ it_in % cpk_freq = 0

\* if it % self.cpk_freq == 0
CheckpointDue(it_in) == it_in % cpk_freq = 0

\* mutant: the checkpoint is written before the report
log_body_cpk_first(s0, it_in, names, values, fail) ==
    LET s1 == [s0 EXCEPT !.it = it_in,
                         !.loss_list = Append(s0.loss_list, values)]
        RecStep(s) == visualize_rec(s, fail)
        TransStep(s) == visualize_transfer(s, fail)
        ScoreStep(s) == log_scores(s, names)
        CpkStep(s) == save_cpk(s, "log")
        s2 == IF CheckpointDue(it_in) THEN Then(s1, CpkStep) ELSE s1
    IN IF ReportDue(it_in)
       THEN Then(Then(Then(s2, ScoreStep), RecStep), TransStep)
       ELSE s2

\* mutant: the record is appended to the buffer after the report
log_body_appends_late(s0, it_in, names, values, fail) ==
    LET s1 == [s0 EXCEPT !.it = it_in]
        RecStep(s) == visualize_rec(s, fail)
        TransStep(s) == visualize_transfer(s, fail)
        ScoreStep(s) == log_scores(s, names)
        CpkStep(s) == save_cpk(s, "log")
        AppendStep(s) == [s EXCEPT !.loss_list = Append(s.loss_list, values)]
        s2 == IF ReportDue(it_in)
              THEN Then(Then(Then(s1, ScoreStep), RecStep), TransStep)
              ELSE s1
        s3 == Then(s2, AppendStep)
    IN IF CheckpointDue(it_in) THEN Then(s3, CpkStep) ELSE s3

\* mutant: the counter only ever moves forward
log_body_keeps_max(s0, it_in, names, values, fail) ==
    LET cur == IF it_in > s0.it THEN it_in ELSE s0.it
        s1 == [s0 EXCEPT !.it = cur,
                         !.loss_list = Append(s0.loss_list, values)]
        RecStep(s) == visualize_rec(s, fail)
        TransStep(s) == visualize_transfer(s, fail)
        ScoreStep(s) == log_scores(s, names)
        CpkStep(s) == save_cpk(s, "log")
        s2 == IF ReportDue(it_in)
              THEN Then(Then(Then(s1, ScoreStep), RecStep), TransStep)
              ELSE s1
    IN IF CheckpointDue(it_in) THEN Then(s2, CpkStep) ELSE s2

\* Logger.log, after the loss list was split into names and values
log_body(s0, it_in, names, values, fail) ==
    LET s1 == [s0 EXCEPT !.it = it_in,
                         !.loss_list = Append(s0.loss_list, values)]
        RecStep(s) == visualize_rec(s, fail)
        TransStep(s) == visualize_transfer(s, fail)
        ScoreStep(s) == log_scores(s, names)
        CpkStep(s) == save_cpk(s, "log")
        s2 == IF ReportDue(it_in)
              THEN Then(Then(Then(s1, ScoreStep), RecStep), TransStep)
              ELSE s1
    IN IF CheckpointDue(it_in) THEN Then(s2, CpkStep) ELSE s2

\* mutant: the iteration is recorded before the loss list is split
log_sets_it_first(s0, it_in, ll, fail) ==
    LET z == ZipStar(ll)
    IN IF Len(z) # 2 THEN Raise([s0 EXCEPT !.it = it_in], "ValueError")
       ELSE log_body(s0, it_in, z[1], z[2], fail)

\* Logger.log: names, values = list(zip(*loss_list)) raises before any effect
log(s0, it_in, ll, fail) ==
    LET z == ZipStar(ll)
    IN IF Len(z) # 2 THEN Raise(s0, "ValueError")
       ELSE log_body(s0, it_in, z[1], z[2], fail)

\* Logger.__exit__: the close is reached only if save_cpk returned
exit(s0) ==
    LET SaveStep(s) == save_cpk(s, "exit")
        CloseStep(s) == [s EXCEPT !.log_open = FALSE,
                                  !.trace = Append(s.trace, "close")]
    IN Then(Then(s0, SaveStep), CloseStep)

\* mutant: the model's parameters are not restored
load_cpk_skips_model(data, m, o, with_opt) ==
    LET checkpoint == Unpickle(data)
    IN [model |-> m,
        optimizer |-> IF with_opt THEN checkpoint["optimizer"] ELSE o,
        ret |-> checkpoint["iter"]]

\* Logger.load_cpk on the stored data, into a model holding m and, when one
\* is passed (with_opt), an optimizer holding o
load_cpk(data, m, o, with_opt) ==
    LET checkpoint == Unpickle(data)
    IN [model |-> checkpoint["model"],
        optimizer |-> IF with_opt THEN checkpoint["optimizer"] ELSE o,
        ret |-> checkpoint["iter"]]

\* the variables a method's final state is written back to
Commit(s) ==
    /\ it' = s.it
    /\ loss_list' = s.loss_list
    /\ log_open' = s.log_open
    /\ log_lines' = s.log_lines
    /\ files' = s.files
    /\ writer' = s.writer
    /\ overwrites' = s.overwrites
    /\ saved_at' = s.saved_at
    /\ raised' = s.err

(* ------------------------------ Init ----------------------------------- *)
\* Logger.__init__: empty buffer, it = 0, and the log file opened in append
\* mode, here in a log_dir whose log file holds a line of an earlier run
InitLogger ==
    /\ log_freq \in LogFreqs
    /\ cpk_freq \in CpkFreqs
    /\ fill_counter \in FillCounters
    /\ has_optimizer \in BOOLEAN
    /\ it = 0
    /\ loss_list = <<>>
    /\ log_open = TRUE
    /\ init_lines = <<OldLine>>
    /\ log_lines = init_lines
    /\ files = <<>>
    /\ model = 0
    /\ optimizer = 0
    /\ scope = "active"
    /\ raised = "none"
    /\ observed = "none"
    /\ load_ret = -1
    /\ window = <<>>
    /\ reports = <<>>
    /\ seen = {}
    /\ distinct = TRUE
    /\ ncalls = 0
    /\ nsaves = 0
    /\ ntrain = 0
    /\ writer = <<>>
    /\ overwrites = {}
    /\ saved_at = <<>>
    /\ last = [op |-> "init"]

Idle == [kind |-> "idle"]

Init == InitLogger /\ fmt = Idle /\ vis = Idle

(* ----------------------------- actions --------------------------------- *)
\* logger.log(it, loss_list, inp); a failure of the model or of the image
\* writer can only happen in a call that reaches the visualization
Log(it_in, ll, fail) ==
    /\ scope = "active"
    /\ ncalls < MaxCalls
    /\ LET s == log(Self, it_in, ll, fail)
           accepted == Len(ZipStar(ll)) = 2
           reporting == ReportDue(it_in)
       IN /\ fail # "none" => accepted /\ reporting
          /\ Commit(s)
          /\ window' = IF ~accepted THEN window
                       ELSE IF reporting THEN <<>>
                       ELSE Append(window, ZipStar(ll)[2])
          /\ reports' = IF accepted /\ reporting THEN Append(reports, it_in)
                        ELSE reports
          /\ last' = [op |-> "log", it |-> it_in, losses |-> ll,
                      accepted |-> accepted, prev_it |-> it,
                      window |-> IF accepted THEN Append(window, ZipStar(ll)[2])
                                 ELSE window,
                      fail |-> fail, trace |-> s.trace, err |-> s.err]
    /\ seen' = seen \cup {it_in}
    /\ distinct' = (distinct /\ it_in \notin seen)
    /\ ncalls' = ncalls + 1
    /\ UNCHANGED << config, pure, model, optimizer, scope, observed, load_ret, nsaves,
                    ntrain >>

\* a direct logger.save_cpk() call
SaveCpk ==
    /\ scope = "active"
    /\ nsaves < MaxSaves
    /\ LET s == save_cpk(Self, "direct")
       IN /\ Commit(s)
          /\ last' = [op |-> "save_cpk", it |-> it, trace |-> s.trace, err |-> s.err]
    /\ nsaves' = nsaves + 1
    /\ UNCHANGED << config, pure, model, optimizer, scope, observed, load_ret, window,
                    reports, seen, distinct, ncalls, ntrain >>

\* leaving the with-block; exc is the error of the enclosed work, if any
Exit(exc) ==
    /\ scope = "active"
    /\ LET s == exit(Self)
       IN /\ Commit(s)
          \* __exit__ returns None: the work's error is re-raised, unless
          \* __exit__ itself raised
          /\ observed' = IF s.err # "none" THEN s.err ELSE exc
          /\ last' = [op |-> "exit", it |-> it, exc |-> exc, trace |-> s.trace,
                      err |-> s.err]
    /\ scope' = "exited"
    /\ UNCHANGED << config, pure, model, optimizer, load_ret, window, reports, seen,
                    distinct, ncalls, nsaves, ntrain >>

\* a training step between log calls changes the parameters and the
\* optimizer state
TrainStep ==
    /\ scope = "active"
    /\ ntrain < MaxTrain
    /\ ntrain' = ntrain + 1
    /\ model' = model + 1
    /\ optimizer' = optimizer + 1
    /\ last' = [op |-> "train"]
    /\ UNCHANGED << config, pure, it, loss_list, log_open, log_lines, files, scope,
                    raised, observed, load_ret, window, reports, seen, distinct,
                    ncalls, nsaves, writer, overwrites, saved_at >>

\* Logger.load_cpk(checkpoint_path, model, optimizer) on a checkpoint of
\* log_dir when training is resumed after the run, into the model and
\* optimizer objects whatever state they hold; with_opt: an optimizer was
\* passed
LoadCpk(path, with_opt) ==
    /\ scope = "exited"
    /\ path \in DOMAIN files
    /\ files[path].kind = "cpk"
    /\ LET r == load_cpk(files[path].data, model, optimizer, with_opt)
       IN /\ model' = r.model
          /\ optimizer' = r.optimizer
          /\ load_ret' = r.ret
    /\ last' = [op |-> "load_cpk", path |-> path, with_opt |-> with_opt,
                before |-> <<model, optimizer>>]
    /\ UNCHANGED << config, pure, it, loss_list, log_open, log_lines, files, scope,
                    raised, observed, window, reports, seen, distinct, ncalls,
                    nsaves, ntrain, writer, overwrites, saved_at >>

Next ==
    \/ \E it_in \in Iterations, ll \in LossLists, fail \in Failures :
          Log(it_in, ll, fail)
    \/ SaveCpk
    \/ \E exc \in {"none", IF raised = "none" THEN "WorkError" ELSE raised} :
          Exit(exc)

Spec == Init /\ [][Next]_vars

\* Saving and loading checkpoints around training steps: the checkpoints
\* come from log calls, direct save_cpk calls and the teardown.
WellFormed == << <<"a", 1>>, <<"b", 3>> >>

NextCpk ==
    \/ \E it_in \in Iterations : Log(it_in, WellFormed, "none")
    \/ SaveCpk
    \/ Exit("none")
    \/ TrainStep
    \/ \E path \in DOMAIN files, with_opt \in BOOLEAN : LoadCpk(path, with_opt)

SpecCpk == Init /\ [][NextCpk]_vars

(* ------------------ the names derived from an iteration ---------------- *)
\* pad widths: narrower than the numbers formatted, and the default of 8
Widths == {1, 2, 8}

\* an iteration number and a pad width, about to be formatted
FmtInputs == [kind : {"in"}, n : 0..MaxNum, width : Widths]

\* the prefix of the log line and the three file names, as log_scores,
\* visualize_rec, visualize_transfer and save_cpk build them
Format ==
    /\ fmt.kind = "in"
    /\ fmt' = [kind |-> "out", n |-> fmt.n, width |-> fmt.width,
               line |-> ZFill(Str(fmt.n), fmt.width),
               rec |-> FileName(fmt.n, fmt.width, "-rec.gif"),
               trans |-> FileName(fmt.n, fmt.width, "-trans.gif"),
               cpk |-> FileName(fmt.n, fmt.width, "-checkpoint.pth.tar")]
    /\ UNCHANGED << config, it, loss_list, log_open, log_lines, files, model,
                    optimizer, scope, raised, observed, load_ret, window,
                    reports, seen, distinct, ncalls, nsaves, ntrain, writer,
                    overwrites, saved_at, last, vis >>

InitFmt == InitLogger /\ fmt \in FmtInputs /\ vis = Idle

NextFmt == Format

SpecFmt == InitFmt /\ [][NextFmt]_vars

(* ---------------------------- Visualizer ------------------------------- *)
\* Arrays are nested sequences indexed from 1: a video is video[t][r][c], a
\* pixel of three channels; a batch is videos[b][t][r][c].  Python index i is
\* index i + 1 here, and Python index -1 is the last index.  Channel values
\* are in ten-thousandths, so the (1, 1, 1) written by the code is White.
White == <<10000, 10000, 10000>>

Max(S) == CHOOSE x \in S : \A y \in S : y <= x

\* the pixel at a position of a test batch: every position holds a value of
\* its own, none of them white
Pix(b, t, r, c) ==
    [ch \in 1..Len(White) |->
        ((((b - 1) * 5 + (t - 1)) * 5 + (r - 1)) * 5 + (c - 1)) * 3 + (ch - 1)]

Video(b, T, H, W) ==
    [t \in 1..T |-> [r \in 1..H |-> [c \in 1..W |-> Pix(b, t, r, c)]]]

Batch(N, T, H, W) == [b \in 1..N |-> Video(b, T, H, W)]

\* videos[:, :, [0, -1]] = (1, 1, 1)
SetBorderRows(videos) ==
    [b \in 1..Len(videos) |-> [t \in 1..Len(videos[b]) |->
        [r \in 1..Len(videos[b][t]) |->
            IF r \in {1, Len(videos[b][t])}
            THEN [c \in 1..Len(videos[b][t][r]) |-> White]
            ELSE videos[b][t][r]]]]

\* videos[:, :, :, [0, -1]] = (1, 1, 1)
SetBorderCols(videos) ==
    [b \in 1..Len(videos) |-> [t \in 1..Len(videos[b]) |->
        [r \in 1..Len(videos[b][t]) |->
            [c \in 1..Len(videos[b][t][r]) |->
                IF c \in {1, Len(videos[b][t][r])}
                THEN White ELSE videos[b][t][r][c]]]]]

RECURSIVE ConcatRows(_, _, _)
\* the rows of frame t of the videos b..N, one video after the other
ConcatRows(videos, t, b) ==
    IF b > Len(videos) THEN <<>>
    ELSE videos[b][t] \o ConcatRows(videos, t, b + 1)

\* np.concatenate(list(videos), axis=1)
ConcatenateAxis1(videos) ==
    [t \in 1..Len(videos[1]) |-> ConcatRows(videos, t, 1)]

\* mutant: the border is drawn on the stitched column, not on each video
create_video_column_borders_after(videos, draw_border) ==
    LET col == ConcatenateAxis1(videos)
    IN [videos |-> videos,
        ret |-> IF draw_border
                THEN SetBorderCols(SetBorderRows(<<col>>))[1] ELSE col]

\* create_video_column: the argument is written in place, so the result
\* carries the caller's array as the call leaves it
create_video_column(videos, draw_border) ==
    LET bordered == IF draw_border
                    THEN SetBorderCols(SetBorderRows(videos)) ELSE videos
    IN [videos |-> bordered, ret |-> ConcatenateAxis1(bordered)]

\* the batches passed to create_video_column
ColInputs ==
    { [kind |-> "col_in", videos |-> Batch(N, T, H, W), draw_border |-> d] :
        N \in 1..MaxBatch, T \in 1..MaxFrames, H \in 1..MaxHeight,
        W \in 1..MaxWidth, d \in BOOLEAN }

CreateVideoColumn ==
    /\ vis.kind = "col_in"
    /\ LET r == create_video_column(vis.videos, vis.draw_border)
       IN vis' = [kind |-> "col_out", before |-> vis.videos,
                  draw_border |-> vis.draw_border,
                  videos |-> r.videos, ret |-> r.ret]
    /\ UNCHANGED << config, it, loss_list, log_open, log_lines, files, model,
                    optimizer, scope, raised, observed, load_ret, window,
                    reports, seen, distinct, ncalls, nsaves, ntrain, writer,
                    overwrites, saved_at, last, fmt >>

\* the lower-right clip of skimage's ellipse, np.minimum(lower_right,
\* np.array(shape[:2]) - 1): a shape of one number bounds rows and columns
\* alike, by broadcasting
ClipBound(shape, axis) ==
    IF Len(shape) = 1 THEN shape[1] - 1 ELSE shape[axis] - 1

\* skimage.draw.circle(r, c, radius, shape): the (row, column) pairs, counted
\* from 0, strictly inside the radius and inside the clipped bounding box
circle(r, c, radius, shape) ==
    LET upper_r == Max({r - radius, 0})
        upper_c == Max({c - radius, 0})
        lower_r == Min({r + radius, ClipBound(shape, 1)})
        lower_c == Min({c + radius, ClipBound(shape, 2)})
    IN { p \in (upper_r..lower_r) \X (upper_c..lower_c) :
           (p[1] - r) * (p[1] - r) + (p[2] - c) * (p[2] - c) < radius * radius }

\* the pixels the keypoints of one frame select; kp is (x, y), the row is kp[1]
\* and the column kp[0] of the code
FramePixels(kps, kp_size, shape) ==
    UNION { circle(kps[k][2], kps[k][1], kp_size, shape) : k \in 1..Len(kps) }

\* draw_video_with_kp: works on np.copy(video); video_array.shape[1:2] is the
\* height alone; an index past the width raises IndexError
draw_video_with_kp(video, kp_array, kp_size) ==
    LET H == Len(video[1])
        W == Len(video[1][1])
        sel(t) == FramePixels(kp_array[t], kp_size, <<H>>)
    IN IF \E t \in 1..Len(video) : \E p \in sel(t) : p[1] >= H \/ p[2] >= W
       THEN [err |-> "IndexError", video |-> video]
       ELSE [err |-> "none", video |-> video,
             ret |-> [t \in 1..Len(video) |-> [r \in 1..H |-> [c \in 1..W |->
                        IF <<r - 1, c - 1>> \in sel(t)
                        THEN White ELSE video[t][r][c]]]]]

\* marker radii: the default of 2 and a single pixel
KpSizes == {1, 2}

\* keypoints (x, y) inside the frame and one step outside it on every side
Keypoints == (-1..MaxWidth) \X (-1..MaxHeight)

\* the keypoints of one frame: none, one, or one and a second at the origin
KpLists(kp) == {<<>>, <<kp>>, <<kp, <<0, 0>>>>}

\* the videos and keypoint arrays passed to draw_video_with_kp
KpInputs ==
    UNION { [kind : {"kp_in"}, video : {Video(1, T, H, W)},
             kp_array : [1..T -> KpLists(kp)], kp_size : KpSizes] :
        T \in 1..MaxFrames, H \in 1..MaxHeight, W \in 1..MaxWidth,
        kp \in Keypoints }

DrawVideoWithKp ==
    /\ vis.kind = "kp_in"
    /\ LET r == draw_video_with_kp(vis.video, vis.kp_array, vis.kp_size)
       IN vis' = [kind |-> "kp_out", before |-> vis.video,
                  kp_array |-> vis.kp_array, kp_size |-> vis.kp_size,
                  video |-> r.video, err |-> r.err,
                  ret |-> IF r.err = "none" THEN r.ret ELSE <<>>]
    /\ UNCHANGED << config, it, loss_list, log_open, log_lines, files, model,
                    optimizer, scope, raised, observed, load_ret, window,
                    reports, seen, distinct, ncalls, nsaves, ntrain, writer,
                    overwrites, saved_at, last, fmt >>

\* range(bs)[::-1], as indices counted from 1
ReversedRange(bs) == [i \in 1..bs |-> bs + 1 - i]

\* a[index]: indexing by a list of positions gathers a new array
Take(a, index) == [i \in 1..Len(index) |-> a[index[i]]]

\* mutant: the keypoints keep their order while the videos are reversed
transfer_inp_kp_in_place(inp) ==
    LET bs == Len(inp.video_array)
        videos == [first_video_array |-> inp.video_array,
                   second_video_array |->
                       Take(inp.video_array, ReversedRange(bs))]
    IN IF "kp_array" \in DOMAIN inp
       THEN videos @@ [first_kp_array |-> inp.kp_array,
                       second_kp_array |-> inp.kp_array]
       ELSE videos

\* the transfer input Logger.visualize_transfer builds before it calls the
\* model
transfer_inp(inp) ==
    LET bs == Len(inp.video_array)
        videos == [first_video_array |-> inp.video_array,
                   second_video_array |->
                       Take(inp.video_array, ReversedRange(bs))]
    IN IF "kp_array" \in DOMAIN inp
       THEN videos @@ [first_kp_array |-> inp.kp_array,
                       second_kp_array |->
                           Take(inp.kp_array, ReversedRange(bs))]
       ELSE videos

\* the keypoints of video b of a test batch: one keypoint per frame, a
\* different one for every video
KpOf(b, T) == [t \in 1..T |-> << <<b, t>> >>]

\* the batches given to Logger.visualize_transfer, with and without keypoints
TransferInputs ==
    { [kind |-> "tr_in", inp |-> [video_array |-> Batch(N, T, H, W)]] :
        N \in 1..MaxTransfer, T \in 1..MaxFrames, H \in 1..MaxHeight,
        W \in 1..MaxWidth }
    \cup
    { [kind |-> "tr_in",
       inp |-> [video_array |-> Batch(N, T, H, W),
                kp_array |-> [b \in 1..N |-> KpOf(b, T)]]] :
        N \in 1..MaxTransfer, T \in 1..MaxFrames, H \in 1..MaxHeight,
        W \in 1..MaxWidth }

BuildTransferInp ==
    /\ vis.kind = "tr_in"
    /\ vis' = [kind |-> "tr_out", inp |-> vis.inp,
               transfer_inp |-> transfer_inp(vis.inp)]
    /\ UNCHANGED << config, it, loss_list, log_open, log_lines, files, model,
                    optimizer, scope, raised, observed, load_ret, window,
                    reports, seen, distinct, ncalls, nsaves, ntrain, writer,
                    overwrites, saved_at, last, fmt >>

\* the array functions use nothing of the Logger, which stays as constructed
\* with an optimizer
InitVis ==
    /\ InitLogger
    /\ has_optimizer
    /\ fmt = Idle
    /\ vis \in ColInputs \cup KpInputs \cup TransferInputs

NextVis ==
    \/ CreateVideoColumn
    \/ DrawVideoWithKp
    \/ BuildTransferInp

SpecVis == InitVis /\ [][NextVis]_vars

(* ============================ properties =============================== *)
Range(f) == {f[i] : i \in DOMAIN f}

VisSuffixes == {"-rec.gif", "-trans.gif"}
CpkSuffix == "-checkpoint.pth.tar"

\* the step is a log call (accepted: its loss list was split into names and
\* values, so the call got past its first statement)
IsLogStep == ncalls' # ncalls
AfterLog == last.op = "log"
AfterAcceptedLog == AfterLog /\ last.accepted

\* the visualization files of a directory listing
VisFiles(fs) == {n \in DOMAIN fs : n.suffix \in VisSuffixes}

\* C1: a log call whose iteration is not divisible by the report interval
\* appends no line to the text log and writes no visualization file; the
\* loss buffer grows by exactly one record, the records before it unchanged.
C1_NoReportOffInterval ==
    [][ (IsLogStep /\ last'.accepted /\ last'.it % log_freq # 0) =>
          /\ log_lines' = log_lines
          /\ VisFiles(files') = VisFiles(files)
          /\ \A n \in VisFiles(files) : files'[n] = files[n]
          /\ {o \in overwrites' : o.name.suffix \in VisSuffixes}
               = {o \in overwrites : o.name.suffix \in VisSuffixes}
          /\ ~ \E e \in Range(last'.trace) : e \in {"line", "flush", "clear", "rec", "trans"}
          /\ Len(loss_list') = Len(loss_list) + 1
          /\ SubSeq(loss_list', 1, Len(loss_list)) = loss_list ]_vars

\* C1 witness: an off-interval call has run on a non-empty buffer
C1_Witness ==
    /\ AfterAcceptedLog
    /\ last.it % log_freq # 0
    /\ Len(loss_list) = 2

\* C2: the loss buffer is as long as the number of log calls made since the
\* most recent reporting call (since construction if none), and it is empty
\* right after every log call whose iteration is divisible by the report
\* interval.
C2_BufferLength ==
    /\ Len(loss_list) = Len(window)
    /\ (AfterAcceptedLog /\ last.it % log_freq = 0) => loss_list = <<>>

\* C2 witness: a reporting call has returned after a window of buffered calls
C2_Witness ==
    /\ AfterAcceptedLog
    /\ last.err = "none"
    /\ last.it % log_freq = 0
    /\ Len(last.window) = 2
    /\ loss_list = <<>>

\* v is the 5-decimal value nearest to sum / n (in units of 10^-5)
IsMean5(v, sum, n) ==
    /\ 2 * (v * n - sum * 100000) <= n
    /\ 2 * (sum * 100000 - v * n) <= n

\* the names / values of a loss list, by position
NamesOf(ll) == [i \in 1..Len(ll) |-> ll[i][1]]

\* C3: at every reporting log call the line written pairs, by position, the
\* names of the call's loss list with the arithmetic mean of the values at
\* that position over exactly the calls since the previous report (the
\* current one included).
C3_ReportedMean ==
    (AfterAcceptedLog /\ last.it % log_freq = 0) =>
        LET line == log_lines[Len(log_lines)]
            w == last.window
        IN /\ line.names = NamesOf(last.losses)
           /\ Len(line.means) = Len(last.losses)
           /\ \A p \in 1..Len(line.means) :
                 IsMean5(line.means[p], SumAt(w, p), Len(w))

\* C3 witness: (a,1),(b,3) at iteration 1, then (a,3),(b,5) at the reporting
\* iteration 2, give a = 2.00000, b = 4.00000
C3_Witness ==
    /\ AfterAcceptedLog
    /\ last.it = 2 /\ last.prev_it = 1
    /\ last.it % log_freq = 0
    /\ last.window = << <<1, 3>>, <<3, 5>> >>
    /\ log_lines[Len(log_lines)].means = <<200000, 400000>>
    /\ log_lines[Len(log_lines)].names = <<"a", "b">>

\* the checkpoint file named after iteration n
CpkName(n) == FileName(n, fill_counter, CpkSuffix)

\* C4: whenever the scope is exited, with or without an optimizer and
\* whatever happened inside, the teardown has saved a checkpoint for the
\* current iteration and the log file is closed.
C4_TeardownSavesAndCloses ==
    scope = "exited" =>
        /\ ~log_open
        /\ CpkName(it) \in DOMAIN files
        /\ Unpickle(files[CpkName(it)].data)["iter"] = it
        /\ last.op = "exit" => "cpk" \in Range(last.trace)

\* C5: save_cpk succeeds with or without an optimizer; the record written
\* holds the model state and the iteration, and the optimizer state exactly
\* when the logger has an optimizer.
C5_SaveCpkRecord ==
    last.op = "save_cpk" =>
        /\ last.err = "none"
        /\ CpkName(it) \in DOMAIN files
        /\ LET d == Unpickle(files[CpkName(it)].data)
           IN /\ d["model"] = model
              /\ d["iter"] = it
              /\ IF has_optimizer THEN d["optimizer"] = optimizer
                 ELSE "optimizer" \notin DOMAIN d

\* C6: loading a checkpoint file that save_cpk wrote returns the iteration
\* current at save time and leaves the model, and the optimizer when one is
\* passed, in their state at save time, whatever they held before.
C6_RoundTrip ==
    last.op = "load_cpk" =>
        LET sv == saved_at[last.path]
        IN /\ load_ret = sv.it
           /\ model = sv.model
           /\ last.with_opt => optimizer = sv.optimizer

\* C6 witness: a checkpoint of a later iteration was loaded into a model and
\* an optimizer that had moved on since the save
C6_Witness ==
    /\ last.op = "load_cpk"
    /\ last.with_opt
    /\ load_ret > 0
    /\ last.before[1] # model
    /\ last.before[2] # optimizer

\* C7 as stated: with pairwise distinct iterations no checkpoint file and no
\* visualization file written in the run is ever written again.
C7_NoFileOverwritten == distinct => overwrites = {}

\* C7: with pairwise distinct iterations no visualization file is written
\* twice and no log call replaces a file an earlier log call wrote; only
\* writes under the current iteration's checkpoint name by the teardown or
\* by a direct save_cpk call replace, or are replaced.
C7_LogWritesFresh ==
    distinct =>
        \A o \in overwrites :
            /\ o.name.suffix = CpkSuffix
            /\ o.by = "log" => o.prev = "direct"

\* C7 witness: after a run with distinct iterations that wrote both
\* visualizations, the teardown replaced the last periodic checkpoint
C7_Witness ==
    /\ distinct
    /\ scope = "exited"
    /\ Cardinality(seen) >= 2
    /\ VisFiles(files) # {}
    /\ \E o \in overwrites : o.by = "exit" /\ o.prev = "log"

\* C8 as stated: no log call makes the iteration counter smaller.
C8_CounterNonDecreasing == [][IsLogStep => it' >= it]_vars

\* C8: after a log call the counter equals the iteration the call passed
\* (a call rejected for its loss list leaves it as it was), so it is
\* non-decreasing only if the caller's iterations are.
C8_CounterFollowsCaller ==
    [][IsLogStep => it' = IF last'.accepted THEN last'.it ELSE it]_vars

\* C8 witness: a log call with a smaller iteration lowered the counter
C8_Witness ==
    /\ AfterAcceptedLog
    /\ last.prev_it > it
    /\ it = last.it

\* C9: a log call that returns normally writes a checkpoint iff its
\* iteration is divisible by the checkpoint interval, whether or not it is
\* divisible by the report interval, and that checkpoint holds the call's
\* iteration.
C9_CheckpointIffDue ==
    (AfterLog /\ last.err = "none") =>
        /\ ("cpk" \in Range(last.trace)) <=> (last.it % cpk_freq = 0)
        /\ last.it % cpk_freq = 0 =>
              /\ CpkName(last.it) \in DOMAIN files
              /\ Unpickle(files[CpkName(last.it)].data)["iter"] = last.it

\* C9 witness: a checkpoint call off the report interval has returned with
\* its checkpoint written, after a reporting call that wrote none
C9_Witness ==
    /\ AfterLog /\ last.err = "none"
    /\ last.it % cpk_freq = 0 /\ last.it % log_freq # 0
    /\ "cpk" \in Range(last.trace)
    /\ \E n \in seen : /\ n % cpk_freq # 0 /\ n % log_freq = 0
                         /\ VisFiles(files) # {}
                         /\ CpkName(n) \notin DOMAIN files

RECURSIVE DigitsValue(_)
\* the number a sequence of decimal digits denotes
DigitsValue(ds) ==
    IF ds = <<>> THEN 0
    ELSE 10 * DigitsValue(SubSeq(ds, 1, Len(ds) - 1)) + ds[Len(ds)]

\* the log file holds what it held at construction followed by one line per
\* reporting call, in call order
LinesMatchReports ==
    /\ Len(log_lines) = Len(init_lines) + Len(reports)
    /\ SubSeq(log_lines, 1, Len(init_lines)) = init_lines
    /\ \A i \in 1..Len(reports) :
          DigitsValue(log_lines[Len(init_lines) + i].prefix) = reports[i]

\* C10: the text log is append-only with one line per report: the lines added
\* are one per log call whose iteration is divisible by the report interval,
\* in call order, and no line already in the file changes or disappears.
C10_AppendOnly ==
    [][ /\ LinesMatchReports'
        /\ Len(log_lines') >= Len(log_lines)
        /\ SubSeq(log_lines', 1, Len(log_lines)) = log_lines ]_vars

\* C10 witness: two reports were appended after the line of an earlier run
C10_Witness ==
    /\ Len(reports) = 2
    /\ reports[1] # reports[2]
    /\ Len(log_lines) = 3
    /\ log_lines[1] = OldLine

\* C11: the teardown does not catch or replace an error of the enclosed
\* work: the error the work raised is the error the caller observes after
\* the teardown.
C11_WorkErrorObserved ==
    (last.op = "exit" /\ last.exc # "none") => observed = last.exc

\* the effects of a log call due for both a report and a checkpoint, in the
\* order the stated contract gives them, and in the order of the statements
StatedOrder == <<"line", "flush", "clear", "rec", "trans", "cpk">>
StatementOrder == <<"line", "clear", "flush", "rec", "trans", "cpk">>

IsPrefix(a, b) == Len(a) <= Len(b) /\ SubSeq(b, 1, Len(a)) = a

DueForBoth == AfterAcceptedLog /\ last.it % log_freq = 0 /\ last.it % cpk_freq = 0

\* C16 as stated: in a log call due for both, the line is written, the file
\* flushed, the buffer cleared, then the reconstruction, the transfer and the
\* checkpoint are written, each after the one before it.
C16_StatedOrder ==
    DueForBoth =>
        /\ IsPrefix(last.trace, StatedOrder)
        /\ last.err = "none" => last.trace = StatedOrder

\* C16: in a log call due for both, the line is written, the buffer cleared,
\* the file flushed, then the reconstruction, the transfer and the checkpoint
\* are written, each after the one before it; a call that raises has done a
\* prefix of these.
C16_StatementOrder ==
    DueForBoth =>
        /\ IsPrefix(last.trace, StatementOrder)
        /\ last.err = "none" => last.trace = StatementOrder

\* C16 witness: a call due for both has returned with all six effects done
C16_Witness ==
    /\ DueForBoth
    /\ last.err = "none"
    /\ Len(last.trace) = 6
    /\ CpkName(it) \in DOMAIN files
    /\ VisFiles(files) # {}

\* C18: when the model or the image writer fails in a reporting log call the
\* error leaves log uncaught; the score line is already appended, the buffer
\* already cleared and the counter already set to the call's iteration, and
\* the call has written no checkpoint.
C18_FailureAfterReport ==
    [][ (IsLogStep /\ last'.fail # "none") =>
          /\ raised' = "ModelError"
          /\ last'.err = "ModelError"
          /\ Len(log_lines') = Len(log_lines) + 1
          /\ DigitsValue(log_lines'[Len(log_lines')].prefix) = last'.it
          /\ loss_list' = <<>>
          /\ it' = last'.it
          /\ "cpk" \notin Range(last'.trace)
          /\ saved_at' = saved_at
          /\ \A n \in DOMAIN files' :
                n.suffix = CpkSuffix => n \in DOMAIN files /\ files'[n] = files[n] ]_vars

\* C18 witness: the transfer visualization failed in a call that was due for
\* a checkpoint, on a logger that can write one
C18_Witness ==
    /\ AfterAcceptedLog
    /\ has_optimizer
    /\ last.fail = "trans"
    /\ last.it % cpk_freq = 0
    /\ raised = "ModelError"
    /\ CpkName(it) \notin DOMAIN files

\* C19: a log call whose loss list cannot be split into names and values
\* raises and leaves the counter, the buffer, the log file and the written
\* files as they were, whatever its iteration.
C19_MalformedNoEffect ==
    [][ (IsLogStep /\ ~last'.accepted) =>
          /\ raised' = "ValueError"
          /\ UNCHANGED << it, loss_list, log_open, log_lines, files, writer,
                          overwrites, saved_at >> ]_vars

\* C19 witness: an empty loss list was passed at an iteration due for both a
\* report and a checkpoint, with records in the buffer
C19_Witness ==
    /\ AfterLog /\ ~last.accepted
    /\ last.losses = <<>>
    /\ last.it % log_freq = 0 /\ last.it % cpk_freq = 0
    /\ it # last.it
    /\ loss_list # <<>>
    /\ raised = "ValueError"

\* C20: whenever log triggers a report the buffer holds at least one record
\* when the mean is taken: no log call ever reaches the mean of an empty
\* buffer, a first call at iteration 0 included.
C20_MeanOverNonEmpty ==
    /\ raised # "TypeError"
    /\ (AfterAcceptedLog /\ last.it % log_freq = 0) =>
          /\ "line" \in Range(last.trace)
          /\ Len(log_lines[Len(log_lines)].means) = Len(last.losses)

\* C20 witness: the first call, at iteration 0, reported the mean of its own
\* record
C20_Witness ==
    /\ ncalls = 1
    /\ AfterAcceptedLog
    /\ last.it = 0
    /\ last.window = << <<3, 5>> >>
    /\ log_lines[Len(log_lines)].means = <<300000, 500000>>

RECURSIVE NumDigits(_)
\* the number of decimal digits of n >= 0
NumDigits(n) == IF n < 10 THEN 1 ELSE 1 + NumDigits(n \div 10)

\* p is n in decimal, left-padded with zeros to the width and never cut
IsPadded(p, n, width) ==
    /\ Len(p) = IF NumDigits(n) > width THEN NumDigits(n) ELSE width
    /\ \A i \in 1..Len(p) : p[i] \in 0..9
    /\ DigitsValue(p) = n
    /\ \A i \in 1..(Len(p) - NumDigits(n)) : p[i] = 0

\* C15: the log line prefix and the -rec, -trans and -checkpoint file names
\* derived from an iteration n >= 0 begin with the decimal digits of n
\* left-padded with zeros to the configured width and never truncated, so
\* distinct iterations give distinct prefixes.
C15_ZeroPadded ==
    fmt.kind = "out" =>
        /\ IsPadded(fmt.line, fmt.n, fmt.width)
        /\ \A f \in {fmt.rec, fmt.trans, fmt.cpk} : f.prefix = fmt.line
        /\ fmt.rec.suffix = "-rec.gif"
        /\ fmt.trans.suffix = "-trans.gif"
        /\ fmt.cpk.suffix = CpkSuffix

\* C15 witness: iteration 42 with width 8 gives 00000042
C15_Witness ==
    /\ fmt.kind = "out"
    /\ fmt.n = 42 /\ fmt.width = 8
    /\ fmt.cpk.prefix = <<0, 0, 0, 0, 0, 0, 4, 2>>
    /\ fmt.line = <<0, 0, 0, 0, 0, 0, 4, 2>>

\* C12: create_video_column with borders enabled leaves the array passed in
\* by the caller unchanged; the border is written to a working copy only.
C12_CallerArrayUnchanged ==
    vis.kind = "col_out" => vis.videos = vis.before

\* the border positions of an H x W frame
OnBorder(r, c, H, W) == r \in {1, H} \/ c \in {1, W}

\* C14: for a batch of N >= 1 videos with frames of height H and width W,
\* create_video_column returns frames of height N*H and width W with the same
\* frame and channel count, video i (from 0) in rows i*H..(i+1)*H-1; with
\* borders enabled the first and last row and column of each H x W block hold
\* the border color and every other pixel equals the input.
C14_StitchedColumn ==
    vis.kind = "col_out" =>
        LET N == Len(vis.before)
            T == Len(vis.before[1])
            H == Len(vis.before[1][1])
            W == Len(vis.before[1][1][1])
        IN /\ Len(vis.ret) = T
           /\ \A t \in 1..T :
                /\ Len(vis.ret[t]) = N * H
                /\ \A row \in 1..(N * H) : Len(vis.ret[t][row]) = W
           /\ \A b \in 1..N, t \in 1..T, r \in 1..H, c \in 1..W :
                LET out == vis.ret[t][(b - 1) * H + r][c]
                IN /\ Len(out) = Len(vis.before[b][t][r][c])
                   /\ out = IF vis.draw_border /\ OnBorder(r, c, H, W)
                            THEN White ELSE vis.before[b][t][r][c]

\* C14 witness: two 3 x 3 videos stitched with borders; the centre of the
\* second block is the centre of the second video, its corner is white
C14_Witness ==
    /\ vis.kind = "col_out"
    /\ vis.draw_border
    /\ Len(vis.before) = 2
    /\ Len(vis.before[1][1]) = 3
    /\ Len(vis.before[1][1][1]) = 3
    /\ Len(vis.ret[1]) = 6
    /\ vis.ret[1][5][2] = Pix(2, 1, 2, 2)
    /\ vis.ret[1][4][1] = White

\* the pixels of a frame within the radius of one of the keypoints kps
InDisk(r, c, kps, radius) ==
    \E k \in 1..Len(kps) :
        (r - 1 - kps[k][2]) * (r - 1 - kps[k][2])
          + (c - 1 - kps[k][1]) * (c - 1 - kps[k][1]) < radius * radius

\* C13: draw_video_with_kp returns a new array of the shape of its input,
\* never modifies the input, leaves every frame without keypoints equal to
\* the input frame, and changes only pixels inside the marker disk of a
\* keypoint.
C13_KpRendering ==
    vis.kind = "kp_out" =>
        LET T == Len(vis.before)
            H == Len(vis.before[1])
            W == Len(vis.before[1][1])
        IN /\ vis.err = "none"
           /\ vis.video = vis.before
           /\ Len(vis.ret) = T
           /\ \A t \in 1..T :
                /\ Len(vis.ret[t]) = H
                /\ \A r \in 1..H : Len(vis.ret[t][r]) = W
                /\ vis.kp_array[t] = <<>> => vis.ret[t] = vis.before[t]
                /\ \A r \in 1..H, c \in 1..W :
                     vis.ret[t][r][c] # vis.before[t][r][c] =>
                         InDisk(r, c, vis.kp_array[t], vis.kp_size)

\* the part of C13 that holds: whenever draw_video_with_kp returns
C13_WhenItReturns ==
    (vis.kind = "kp_out" /\ vis.err = "none") =>
        LET T == Len(vis.before)
            H == Len(vis.before[1])
            W == Len(vis.before[1][1])
        IN /\ vis.video = vis.before
           /\ Len(vis.ret) = T
           /\ \A t \in 1..T :
                /\ Len(vis.ret[t]) = H
                /\ \A r \in 1..H : Len(vis.ret[t][r]) = W
                /\ vis.kp_array[t] = <<>> => vis.ret[t] = vis.before[t]
                /\ \A r \in 1..H, c \in 1..W :
                     vis.ret[t][r][c] # vis.before[t][r][c] =>
                         InDisk(r, c, vis.kp_array[t], vis.kp_size)

\* draw_video_with_kp fails only on a frame higher than wide
C13_FailsOnlyOnTallFrames ==
    (vis.kind = "kp_out" /\ vis.err # "none") =>
        Len(vis.before[1]) > Len(vis.before[1][1])

\* C17: the transfer input has first_video_array = video_array and
\* second_video_array[i] = video_array[bs-1-i]; the keypoint arrays, when
\* present, are reversed the same way, so each video keeps its own keypoints;
\* reversing twice gives the original batch; for batch size 1 the second
\* array equals the first.
C17_TransferReversal ==
    vis.kind = "tr_out" =>
        LET v == vis.inp.video_array
            bs == Len(v)
            out == vis.transfer_inp
        IN /\ out.first_video_array = v
           /\ Len(out.second_video_array) = bs
           /\ \A i \in 0..(bs - 1) :
                out.second_video_array[i + 1] = v[(bs - 1 - i) + 1]
           /\ IF "kp_array" \in DOMAIN vis.inp
              THEN /\ out.first_kp_array = vis.inp.kp_array
                   /\ Len(out.second_kp_array) = bs
                   /\ \A i \in 1..bs, b \in 1..bs :
                        out.second_video_array[i] = v[b] =>
                            out.second_kp_array[i] = vis.inp.kp_array[b]
              ELSE DOMAIN out = {"first_video_array", "second_video_array"}
           /\ transfer_inp([video_array |-> out.second_video_array])
                  .second_video_array = v
           /\ bs = 1 => out.second_video_array = out.first_video_array

\* C17 witness: a batch of three videos with keypoints; the second array
\* starts with the last video and its keypoints
C17_Witness ==
    /\ vis.kind = "tr_out"
    /\ "kp_array" \in DOMAIN vis.inp
    /\ Len(vis.inp.video_array) = 3
    /\ vis.transfer_inp.second_video_array[1] = vis.inp.video_array[3]
    /\ vis.transfer_inp.second_kp_array[1] = vis.inp.kp_array[3]
    /\ vis.transfer_inp.second_video_array # vis.inp.video_array

====
